---- MODULE Spec2Model ----
(***************************************************************************)
(* Hash-to-curve for BN254 (sp1-hash2curve): message expansion (XMD),      *)
(* hash_to_field, the SVDW maps for G1 and G2, sgn0, psi and the G2        *)
(* cofactor clearing.                                                      *)
(*                                                                         *)
(* Byte-level code (expand_message_xmd, hash_to_field) is modelled at its  *)
(* real sizes: 32-byte digests, 64-byte padding, 48 bytes per element.     *)
(* Sha256 is an opaque digest; the model records every preimage handed to  *)
(* it.                                                                     *)
(*                                                                         *)
(* Field and curve arithmetic cannot be run at 254 bits.  The model runs   *)
(* the same code over the smallest curve of the same Barreto-Naehrig       *)
(* family: BN parameter 1 instead of 4965661367192848881, which gives the  *)
(* base field of 103 elements (103 = 3 mod 4, as for BN254), the group     *)
(* order 97, the twist over Fq2 = Fq[i]/(i^2+1) of order 97 * 109, and     *)
(* machine words of 2 bits instead of 64 (a field element is four words,   *)
(* as in U256).  Every constant of the code is the constant the same       *)
(* derivation gives for that curve.                                        *)
(***************************************************************************)
EXTENDS Integers, Sequences, FiniteSets, TLC

\* ------------------------------------------------------------------ bytes

B_IN_BYTES == 32
S_IN_BYTES == 64
LEN_PER_ELM == 48
MAX_ELL == 255
MAX_DST_LEN == 255

\* Largest len_in_bytes of a direct expand_message_xmd call the model tries.
MaxLen == 70
\* Largest count of a hash_to_field call the model tries.
MaxCount == 4

\* [0u8; n] and vec![0u8; n]
Zeros(n) == [k \in 1..n |-> 0]

\* `x as u8`
AsU8(x) == x % 256

RECURSIVE XorBit(_, _, _)
XorBit(a, b, n) ==
    IF n = 0 THEN 0
    ELSE ((a + b) % 2) + 2 * XorBit(a \div 2, b \div 2, n - 1)

\* b0val ^ bi1val on u8
XorU8(a, b) == XorBit(a, b, 8)

\* tmp[j] = b0val ^ bi1val for every j
XorBytes(s, t) == [j \in 1..Len(s) |-> XorU8(s[j], t[j])]

\* The digest's internal accumulator: an opaque, order-sensitive function of
\* the whole input (a polynomial checksum, folded by halves).  The result is
\* <<checksum of s[lo..hi], 131^(hi-lo+1)>>, both modulo 32749.
RECURSIVE Absorb(_, _, _)
Absorb(s, lo, hi) ==
    IF lo > hi THEN <<0, 1>>
    ELSE IF lo = hi THEN <<s[lo] + 1, 131>>
    ELSE LET mid == (lo + hi) \div 2
             l == Absorb(s, lo, mid)
             h == Absorb(s, mid + 1, hi)
         IN  <<(l[1] * h[2] + h[1]) % 32749, (l[2] * h[2]) % 32749>>

\* Sha256::new().chain_update(..)...finalize(): 32 bytes determined by the
\* concatenation of everything that was fed to it.
Sha256(input) ==
    LET a == Absorb(input, 1, Len(input))[1] + 7 * Len(input)
    IN  [j \in 1..B_IN_BYTES |-> (a \div j + 37 * j + a * j) % 256]

\* ------------------------------------------------------------ base field

\* The modulus of Fq (substrate_bn::Fq), for the BN curve of parameter 1.
P == 103

Fq == 0..(P - 1)

FqAdd(a, b) == (a + b) % P
FqSub(a, b) == (a + P - b) % P
FqMul(a, b) == (a * b) % P
FqNeg(a) == (P - a) % P

RECURSIVE FqPow(_, _)
FqPow(a, e) ==
    IF e = 0 THEN 1
    ELSE IF e % 2 = 1 THEN FqMul(a, FqPow(FqMul(a, a), e \div 2))
    ELSE FqPow(FqMul(a, a), e \div 2)

\* An Option<T> is <<>> for None and <<v>> for Some(v).
None == <<>>
Some(v) == <<v>>
IsSome(o) == Len(o) = 1
Unwrap(o) == o[1]

\* Fq::inverse: None for zero
FqInverse(a) == IF a = 0 THEN None ELSE Some(FqPow(a, P - 2))

\* Fq::sqrt: a1 = a^((q-3)/4), a1a = a1 * a, a0 = a1 * a1a; None when a0 = -1
FqSqrt(a) ==
    LET a1 == FqPow(a, (P - 3) \div 4)
        a1a == FqMul(a1, a)
        a0 == FqMul(a1, a1a)
    IN  IF a0 = P - 1 THEN None ELSE Some(a1a)

\* Fq::from_be_bytes_mod_order: the bytes as a big-endian integer, reduced.
\* BeMod is <<value of s[lo..hi] mod P, 256^(hi-lo+1) mod P>>, folded by halves.
RECURSIVE BeMod(_, _, _)
BeMod(s, lo, hi) ==
    IF lo > hi THEN <<0, 1>>
    ELSE IF lo = hi THEN <<s[lo] % P, 256 % P>>
    ELSE LET mid == (lo + hi) \div 2
             l == BeMod(s, lo, mid)
             h == BeMod(s, mid + 1, hi)
         IN  <<(l[1] * h[2] + h[1]) % P, (l[2] * h[2]) % P>>

FromBeBytesModOrder(s) == BeMod(s, 1, Len(s))[1]

\* ------------------------------------------------------- extension field

\* Fq2 = Fq[i] / (i^2 + 1); an element is <<real, imaginary>>.
Fq2 == Fq \X Fq

Fq2New(re, im) == <<re, im>>
Real(a) == a[1]
Imaginary(a) == a[2]
Fq2Zero == <<0, 0>>
Fq2One == <<1, 0>>
Fq2I == <<0, 1>>

Fq2Add(a, b) == <<FqAdd(a[1], b[1]), FqAdd(a[2], b[2])>>
Fq2Sub(a, b) == <<FqSub(a[1], b[1]), FqSub(a[2], b[2])>>
Fq2Neg(a) == <<FqNeg(a[1]), FqNeg(a[2])>>
Fq2Mul(a, b) ==
    <<FqSub(FqMul(a[1], b[1]), FqMul(a[2], b[2])),
      FqAdd(FqMul(a[1], b[2]), FqMul(a[2], b[1]))>>

RECURSIVE Fq2Pow(_, _)
Fq2Pow(a, e) ==
    IF e = 0 THEN Fq2One
    ELSE IF e % 2 = 1 THEN Fq2Mul(a, Fq2Pow(Fq2Mul(a, a), e \div 2))
    ELSE Fq2Pow(Fq2Mul(a, a), e \div 2)

\* Fq2 inverse: conjugate over the norm; None for zero
Fq2Inverse(a) ==
    IF a = Fq2Zero THEN None
    ELSE LET n == Unwrap(FqInverse(FqAdd(FqMul(a[1], a[1]), FqMul(a[2], a[2]))))
         IN  Some(<<FqMul(a[1], n), FqMul(FqNeg(a[2]), n)>>)

\* Fq2::sqrt (substrate_bn): a1 = a^((q-3)/4), alpha = a1 * a1 * a,
\* a0 = alpha^q * alpha; None when a0 = -1; i * a1 * a when alpha = -1;
\* else (alpha + 1)^((q-1)/2) * a1 * a
Fq2Sqrt(a) ==
    LET a1 == Fq2Pow(a, (P - 3) \div 4)
        a1a == Fq2Mul(a1, a)
        alpha == Fq2Mul(a1, a1a)
        a0 == Fq2Mul(Fq2Pow(alpha, P), alpha)
    IN  IF a0 = Fq2Neg(Fq2One) THEN None
        ELSE IF alpha = Fq2Neg(Fq2One) THEN Some(Fq2Mul(Fq2I, a1a))
        ELSE Some(Fq2Mul(Fq2Pow(Fq2Add(alpha, Fq2One), (P - 1) \div 2), a1a))

\* impl Conjugate for Fq2, g2.rs lines 9-13
Fq2Conjugate(a) == Fq2New(Real(a), FqNeg(Imaginary(a)))

\* ------------------------------------------------------------ G1 mapping

\* Fq::from_str("3"), the curve's B: y^2 = x^3 + G1_B has 97 points over Fq
G1_B == 99
\* z, c1 .. c4 of AffineG1::map_to_curve: Z = 1, c1 = g(Z) = Z^3 + B,
\* c2 = -Z / 2, c3 = sqrt(-g(Z) * 3 * Z^2) with sgn0(c3) = 0,
\* c4 = -4 * g(Z) / (3 * Z^2)
\* c4 with the sign dropped, 4 * g(Z) / (3 * Z^2): x3 then misses the curve
G1_c4SignDropped == FqNeg(4)
G1_z == 1
G1_c1 == 100
G1_c2 == 51
G1_c3 == 100
G1_c4 == 4

\* what a call leaves behind: how it ended ("Ok", "Err" or "panic"), the
\* point, and the locals x1, x2, x3, gx1, gx2; `line` is the panicking line
\* (a call that panics when unwrapping sqrt(gx) has chosen x, and leaves it)
MapResult(kind, x, y, loc, line) ==
    [kind |-> kind, x |-> x, y |-> y, x1 |-> loc[1], x2 |-> loc[2],
     x3 |-> loc[3], gx1 |-> loc[4], gx2 |-> loc[5], line |-> line]

\* AffineG1::new: Err(NotOnCurve) unless y^2 = x^3 + b
G1OnCurve(x, y) == FqMul(y, y) = FqAdd(FqMul(FqMul(x, x), x), G1_B)

\* AffineG1::sgn0, lines 98-102: the last byte of the big-endian encoding, & 1
G1Sgn0(x) == (x % 256) % 2

\* AffineG1::map_to_curve, lines 104-167
G1MapToCurve(u) ==
    LET tv1a == FqMul(FqMul(u, u), G1_c1)
        tv2 == FqAdd(1, tv1a)
        tv1 == FqSub(1, tv1a)
        tv3o == FqInverse(FqMul(tv1, tv2))
    IN  IF ~IsSome(tv3o)
        THEN MapResult("panic", 0, 0, <<0, 0, 0, 0, 0>>, 119)
        ELSE
        LET tv3 == Unwrap(tv3o)
            tv4 == FqMul(FqMul(FqMul(u, tv1), tv3), G1_c3)
            x1 == FqSub(G1_c2, tv4)
            gx1 == FqAdd(FqMul(FqMul(x1, x1), x1), G1_B)
            x2 == FqAdd(G1_c2, tv4)
            gx2 == FqAdd(FqMul(FqMul(x2, x2), x2), G1_B)
            x3a == FqMul(FqMul(tv2, tv2), tv3)
            x3 == FqAdd(FqMul(FqMul(x3a, x3a), G1_c4), G1_z)
            xa == IF IsSome(FqSqrt(gx1)) THEN x1 ELSE x3
            x == IF IsSome(FqSqrt(gx2)) /\ ~IsSome(FqSqrt(gx1)) THEN x2 ELSE xa
            gx == FqAdd(FqMul(FqMul(x, x), x), G1_B)
            yo == FqSqrt(gx)
            loc == <<x1, x2, x3, gx1, gx2>>
        IN  IF ~IsSome(yo)
            THEN MapResult("panic", x, 0, loc, 156)
            ELSE
            LET y0 == Unwrap(yo)
                signsNotEqual == (G1Sgn0(u) + G1Sgn0(y0)) % 2
                y == IF signsNotEqual # 0 THEN FqSub(0, y0) ELSE y0
            IN  IF G1OnCurve(x, y)
                THEN MapResult("Ok", x, y, loc, 0)
                ELSE MapResult("Err", x, y, loc, 0)

\* ------------------------------------------------------------ G2 mapping

\* Bits of a machine word (u64 in the source); a field element is four words.
WORD_BITS == 2

RECURSIVE Pow2(_)
Pow2(n) == IF n = 0 THEN 1 ELSE 2 * Pow2(n - 1)

\* `as u64`
AsU64(x) == x % Pow2(WORD_BITS)
\* U256.0[0]: the low u128 limb
Limb0(t) == t % Pow2(2 * WORD_BITS)
\* U256::get_bit(0)
GetBit0(t) == t % 2
And01(a, b) == a * b
Or01(a, b) == IF a + b > 0 THEN 1 ELSE 0

\* B of AffineG2::map_to_curve, the twist's coefficient: G1_B / (1 + 8i)
G2_B == <<76, 10>>
\* z, c1 .. c4 of AffineG2::map_to_curve.  As in the source, each is 2^(4 *
\* WORD_BITS) = R times the constant the SVDW derivation gives for Z = 1
\* (R = 2^256 in the source): z = R, c1 = R * (1 + B), c2 = -R / 2,
\* c3 = R * sqrt(-3 * (1 + B)), c4 = R * (-4 * (1 + B) / 3).  B itself is not
\* multiplied by R.
G2_z == <<50, 0>>
G2_c1 == <<39, 88>>
G2_c2 == <<78, 0>>
G2_c3 == <<37, 100>>
G2_c4 == <<51, 20>>

\* AffineG2::new: Err unless y^2 = x^3 + b
G2OnCurve(x, y) ==
    Fq2Mul(y, y) = Fq2Add(Fq2Mul(Fq2Mul(x, x), x), G2_B)

\* AffineG2::sgn0, lines 68-87
G2Sgn0(u) ==
    LET t == Real(u)
        t0 == GetBit0(t)
        sign_i == t0 % 2
        zero_i == IF AsU64(Limb0(t)) = 0 THEN 1 ELSE 0
        sign1 == Or01(0, And01(1, sign_i))
        zero1 == And01(1, zero_i)
        t2 == Imaginary(u)
        sign_i2 == AsU64(Limb0(t2)) % 2
    IN  Or01(sign1, And01(zero1, sign_i2))

\* lines 136-139, 142-145, 157-160: x^3 + B
G2Gx(x) == Fq2Add(Fq2Mul(Fq2Mul(x, x), x), G2_B)

\* lines 121-128 and the divisor of line 130: tv1, tv2 and the inverse of
\* tv1 * tv2, None when the product is zero
G2MapTv(u) ==
    LET tv1a == Fq2Mul(Fq2Mul(u, u), G2_c1)
        tv2 == Fq2Add(Fq2One, tv1a)
        tv1 == Fq2Sub(Fq2One, tv1a)
    IN  [tv1 |-> tv1, tv2 |-> tv2, inv |-> Fq2Inverse(Fq2Mul(tv1, tv2))]

\* lines 130-152: <<x1, x2, x3, gx1, gx2>>, given the locals of G2MapTv
G2MapXs(u, tv) ==
    LET tv3 == Fq2Mul(Fq2One, Unwrap(tv.inv))
        tv4 == Fq2Mul(Fq2Mul(Fq2Mul(u, tv.tv1), tv3), G2_c3)
        x1 == Fq2Sub(G2_c2, tv4)
        x2 == Fq2Add(G2_c2, tv4)
        x3a == Fq2Mul(Fq2Mul(tv.tv2, tv.tv2), tv3)
        x3 == Fq2Add(Fq2Mul(Fq2Mul(x3a, x3a), G2_c4), G2_z)
    IN  <<x1, x2, x3, G2Gx(x1), G2Gx(x2)>>

\* the selection without `&& !gx1.sqrt().is_some()`: x2 whenever gx2 is a square
G2MapSelectX2First(loc) ==
    IF IsSome(Fq2Sqrt(loc[5])) THEN loc[2]
    ELSE IF IsSome(Fq2Sqrt(loc[4])) THEN loc[1] ELSE loc[3]

\* lines 154-155: x, given loc = <<x1, x2, x3, gx1, gx2>>
G2MapSelect(loc) ==
    LET xa == IF IsSome(Fq2Sqrt(loc[4])) THEN loc[1] ELSE loc[3]
    IN  IF IsSome(Fq2Sqrt(loc[5])) /\ ~IsSome(Fq2Sqrt(loc[4]))
        THEN loc[2] ELSE xa

\* lines 164-171: the sign of y and AffineG2::new, given y = sqrt(gx)
G2MapSign(u, loc, x, y0) ==
    LET signs_not_equal == (G2Sgn0(u) + G2Sgn0(y0)) % 2
        tv1 == Fq2Sub(Fq2Zero, y0)
        y == IF signs_not_equal = 0 THEN y0 ELSE tv1
    IN  IF G2OnCurve(x, y)
        THEN MapResult("Ok", x, y, loc, 0)
        ELSE MapResult("Err", x, y, loc, 0)

\* lines 157-171: gx, its square root (line 162 unwraps it) and the rest
G2MapFinish(u, loc, x) ==
    LET yo == Fq2Sqrt(G2Gx(x))
    IN  IF ~IsSome(yo)
        THEN MapResult("panic", x, Fq2Zero, loc, 162)
        ELSE G2MapSign(u, loc, x, Unwrap(yo))

\* lines 154-171
G2MapFrom(u, loc) == G2MapFinish(u, loc, G2MapSelect(loc))

\* AffineG2::map_to_curve, lines 89-172
G2MapToCurve(u) ==
    LET tv == G2MapTv(u)
        nil == <<Fq2Zero, Fq2Zero, Fq2Zero, Fq2Zero, Fq2Zero>>
    IN  IF ~IsSome(tv.inv)
        THEN MapResult("panic", Fq2Zero, Fq2Zero, nil, 130)
        ELSE G2MapFrom(u, G2MapXs(u, tv))

\* -------------------------------------------------------------- G2 group

\* The modulus of Fr, the order of the groups G1 and G2.
FR_MODULUS == 97

\* A G2 point is <<x, y, z>> with z = 1, or z = 0 for the identity; an
\* AffineG2 is the same point with the identity written <<0, 1, 0>>.
G2Zero == <<Fq2Zero, Fq2One, Fq2Zero>>
G2Point(x, y) == <<x, y, Fq2One>>
G2IsZero(a) == a[3] = Fq2Zero

\* G2 <-> AffineG2 (`.into()`)
G2Into(a) == IF G2IsZero(a) THEN G2Zero ELSE a

\* G2::one(), AffineG2::one(): the generator of the subgroup of order r
G2One == G2Point(<<1, 5>>, <<17, 94>>)

\* The values of G2: every <<x, y, z>> over Fq2.
G2Values == Fq2 \X Fq2 \X Fq2

\* The third point, mirrored, of the line of slope l through a and b.
G2Chord(a, b, l) ==
    LET x == Fq2Sub(Fq2Sub(Fq2Mul(l, l), a[1]), b[1])
    IN  G2Point(x, Fq2Sub(Fq2Mul(l, Fq2Sub(a[1], x)), a[2]))

G2Double[a \in G2Values] ==
    IF G2IsZero(a) \/ a[2] = Fq2Zero THEN G2Zero
    ELSE G2Chord(a, a, Fq2Mul(Fq2Mul(<<3, 0>>, Fq2Mul(a[1], a[1])),
                              Unwrap(Fq2Inverse(Fq2Mul(<<2, 0>>, a[2])))))

\* G2 + G2
G2Add[a \in G2Values, b \in G2Values] ==
    IF G2IsZero(a) THEN G2Into(b)
    ELSE IF G2IsZero(b) THEN G2Into(a)
    ELSE IF a[1] = b[1]
         THEN IF a[2] = b[2] THEN G2Double[a] ELSE G2Zero
         ELSE G2Chord(a, b, Fq2Mul(Fq2Sub(b[2], a[2]),
                                   Unwrap(Fq2Inverse(Fq2Sub(b[1], a[1])))))

\* G2 * Fr, by double-and-add
G2Mul[a \in G2Values, k \in Nat] ==
    IF k = 0 THEN G2Zero
    ELSE IF k % 2 = 1 THEN G2Add[a, G2Mul[G2Double[a], k \div 2]]
    ELSE G2Mul[G2Double[a], k \div 2]

\* Fr::new(U256::from(n)): None unless n is below the modulus
FrNew(n) == IF n < FR_MODULUS THEN Some(n) ELSE None

\* impl Conjugate for G2, lines 15-19
G2Conjugate(a) ==
    <<Fq2Conjugate(a[1]), Fq2Conjugate(a[2]), Fq2Conjugate(a[3])>>

\* endo_u = xi^((p-1)/3) and endo_v = xi^((p-1)/2) for the twist's xi = 1 + 8i
endo_u == <<84, 2>>
endo_v == <<86, 88>>

\* psi, lines 21-40.  Line 22 converts the argument into `a`; line 23 starts
\* `p` from G2::one(), and `p` is what lines 34-39 transform and return.
psi(a) ==
    LET a_ == G2Into(a)
        p0 == G2One
        p1 == G2Conjugate(p0)
        p2 == [p1 EXCEPT ![1] = Fq2Mul(p1[1], endo_u)]
        p3 == [p2 EXCEPT ![2] = Fq2Mul(p2[2], endo_v)]
    IN  G2Into(p3)

\* const X_GEN, line 44: the BN parameter of the curve
X_GEN == 1

\* clear_cofactor, lines 46-60: the array `points`, given points[0]
ClearCofactorPoints(q, pt0) ==
    <<pt0,
      psi(G2Into(G2Add[G2Add[G2Add[G2Zero, pt0], pt0], pt0])),
      psi(psi(pt0)),
      psi(psi(psi(q)))>>

\* line 62: points.iter().fold(G2::zero(), |acc, point| acc + point).into()
G2Sum(points) ==
    G2Into(G2Add[G2Add[G2Add[G2Add[G2Zero, points[1]], points[2]],
                       points[3]], points[4]])

\* clear_cofactor, lines 43-63
clear_cofactor(q) ==
    G2Sum(ClearCofactorPoints(
              q, G2Into(G2Mul[G2Into(q), Unwrap(FrNew(X_GEN))])))

\* ---------------------------------------------------------- G1 group, Fr

\* An AffineG1 is <<x, y, z>> with z = 1, or <<0, 1, 0>> for the identity.
G1Zero == <<0, 1, 0>>
G1Point(x, y) == <<x, y, 1>>
G1IsZero(a) == a[3] = 0

\* AffineG1::one(): the generator (the whole curve has prime order r)
G1One == G1Point(1, 10)

\* The third point, mirrored, of the line of slope l through a and b.
G1Chord(a, b, l) ==
    LET x == FqSub(FqSub(FqMul(l, l), a[1]), b[1])
    IN  G1Point(x, FqSub(FqMul(l, FqSub(a[1], x)), a[2]))

G1Double(a) ==
    IF G1IsZero(a) \/ a[2] = 0 THEN G1Zero
    ELSE G1Chord(a, a, FqMul(FqMul(3, FqMul(a[1], a[1])),
                             Unwrap(FqInverse(FqMul(2, a[2])))))

\* AffineG1 + AffineG1
G1Add(a, b) ==
    IF G1IsZero(a) THEN b
    ELSE IF G1IsZero(b) THEN a
    ELSE IF a[1] = b[1]
         THEN IF a[2] = b[2] THEN G1Double(a) ELSE G1Zero
         ELSE G1Chord(a, b, FqMul(FqSub(b[2], a[2]),
                                  Unwrap(FqInverse(FqSub(b[1], a[1])))))

\* AffineG1 * Fr, by double-and-add
RECURSIVE G1Mul(_, _)
G1Mul(a, k) ==
    IF k = 0 THEN G1Zero
    ELSE IF k % 2 = 1 THEN G1Add(a, G1Mul(G1Double(a), k \div 2))
    ELSE G1Mul(G1Double(a), k \div 2)

\* Fr + Fr, Fr * Fr
FrAdd(a, b) == (a + b) % FR_MODULUS
FrMul(a, b) == (a * b) % FR_MODULUS

\* ----------------------------------- hashing to G1, as functions of the input

\* block n (1 .. ell) of expand_message_xmd: b_vals when it is copied for
\* the n-th time (lines 29-33 for the first, 41-45 and 53-58 for the others)
RECURSIVE XmdBlock(_, _, _)
XmdBlock(b0, d, n) ==
    IF n = 1 THEN Sha256(b0 \o <<1>> \o d \o <<AsU8(Len(d))>>)
    ELSE Sha256(XorBytes(b0, XmdBlock(b0, d, n - 1)) \o <<AsU8(n)>> \o d
                    \o <<AsU8(Len(d))>>)

\* the bytes lines 46-52 and 60-64 store: offset k (from 0) takes byte
\* k mod 32 of block k div 32 + 1, for the offsets below len
XmdBytes(blocks, len) ==
    [k \in 1..len |-> blocks[(k - 1) \div B_IN_BYTES + 1]
                             [((k - 1) % B_IN_BYTES) + 1]]

\* expand_message_xmd, lines 12-67, for the calls that return (1 <= len,
\* ell <= 255, dst.len() <= 255)
expand_message_xmd(m, d, len) ==
    LET ell_ == (len + B_IN_BYTES - 1) \div B_IN_BYTES
        b0 == Sha256(Zeros(S_IN_BYTES) \o m
                       \o <<AsU8(len \div 256), AsU8(len), 0>> \o d
                       \o <<AsU8(Len(d))>>)
    IN  XmdBytes([n \in 1..ell_ |-> XmdBlock(b0, d, n)], len)

\* hash_to_field, lines 69-83, given uniform_bytes
HashToFieldFrom(uniform_bytes, cnt) ==
    [k \in 1..cnt |->
        FromBeBytesModOrder(SubSeq(uniform_bytes, (k - 1) * LEN_PER_ELM + 1,
                                   k * LEN_PER_ELM))]

hash_to_field(m, d, cnt) ==
    HashToFieldFrom(expand_message_xmd(m, d, cnt * LEN_PER_ELM), cnt)

\* AffineG1::hash, lines 171-174, given u = hash_to_field(msg, dst, 2) and the
\* two results of map_to_curve: None when an unwrap panics
G1HashFrom(m0, m1) ==
    IF m0.kind = "Ok" /\ m1.kind = "Ok"
    THEN Some(G1Add(G1Point(m0.x, m0.y), G1Point(m1.x, m1.y)))
    ELSE None

G1HashOf(u) == G1HashFrom(G1MapToCurve(u[1]), G1MapToCurve(u[2]))

\* AffineG1::hash, lines 169-175
G1Hash(m, d) == G1HashOf(hash_to_field(m, d, 2))

\* ------------------------------------------------------------------ commit

\* The value vectors tried have at most MaxVec elements (10 in the tests).
MaxVec == 2

\* lib.rs line 16: b"QUUX-V01-CS02-with-BN254G1_XMD:SHA-256_SVDW_RO_"
CommitDst ==
    <<81, 85, 85, 88, 45, 86, 48, 49, 45, 67, 83, 48, 50, 45, 119, 105,
      116, 104, 45, 66, 78, 50, 53, 52, 71, 49, 95, 88, 77, 68, 58, 83, 72,
      65, 45, 50, 53, 54, 95, 83, 86, 68, 87, 95, 82, 79, 95>>

\* i.to_le_bytes(): a usize as 8 little-endian bytes
RECURSIVE LeBytes(_, _)
LeBytes(n, k) ==
    IF k = 0 THEN <<>> ELSE <<n % 256>> \o LeBytes(n \div 256, k - 1)
ToLeBytes(n) == LeBytes(n, 8)

\* the step without `* v`: every generator is added once, unweighted
CommitStepUnweighted(acc, h, val) ==
    IF IsSome(acc) /\ IsSome(h)
    THEN Some(G1Add(Unwrap(acc), Unwrap(h)))
    ELSE None

\* the step of the fold, line 18: acc + AffineG1::hash(..) * v; None once a
\* call of AffineG1::hash has panicked
CommitStep(acc, h, val) ==
    IF IsSome(acc) /\ IsSome(h)
    THEN Some(G1Add(Unwrap(acc), G1Mul(Unwrap(h), val)))
    ELSE None

\* AffineG1::hash(&i.to_le_bytes(), dst) of line 18, for every index i that
\* a vector of the model has: the call depends on i alone
CommitHash == [k \in 0..(MaxVec - 1) |-> G1Hash(ToLeBytes(k), CommitDst)]

\* the fold of lines 17-19 over the first n values
RECURSIVE CommitFold(_, _, _, _)
CommitFold(vs, gen, blind, n) ==
    IF n = 0 THEN Some(G1Mul(gen, blind))
    ELSE CommitStep(CommitFold(vs, gen, blind, n - 1),
                    CommitHash[n - 1], vs[n])

\* commit with the fold started from G instead of G * r
commitUnblinded(vs, gen, blind) == CommitFold(vs, gen, 1, Len(vs))

\* commit, lib.rs lines 15-20
commit(vs, gen, blind) == CommitFold(vs, gen, blind, Len(vs))

\* ---------------------------------------------------------------- state

\* a call of map_to_curve or sgn0
VARIABLES
    mfn,    \* the function that was called
    mpc,    \* "call" before it ran, "returned" or "panic" after
    mu,     \* its argument: an Fq (G1) or Fq2 (G2) element
    mres    \* what it left behind (MapResult), or the sign bit

mapVars == <<mfn, mpc, mu, mres>>

\* a call of expand_message_xmd or hash_to_field
VARIABLES
    entry,          \* the function that was called
    xpc,            \* position in expand_message_xmd / hash_to_field
    msg, dst,       \* arguments
    LEN_IN_BYTES,   \* argument (count * LEN_PER_ELM under hash_to_field)
    count,          \* hash_to_field's argument
    ell, b_0, b_vals, tmp, buf, offset,     \* locals of expand_message_xmd
    i,              \* the loop variable of `for i in 1..ell`
    blk,            \* position of `for b in b_vals` in the current block
    hashLog,        \* every input handed to Sha256, in call order
    writes,         \* per output index, how often a byte was stored there
    xout,           \* the returned bytes, or hash_to_field's field elements
    xerr            \* the panic message, "" while there is none

xmdVars == <<entry, xpc, msg, dst, LEN_IN_BYTES, count, ell, b_0, b_vals, tmp,
             buf, offset, i, blk, hashLog, writes, xout, xerr>>

\* a call of AffineG2::hash, clear_cofactor or psi
VARIABLES
    gfn,        \* the function that was called
    gpc,        \* its position
    garg,       \* the point argument of clear_cofactor / psi
    q0, q1, q,  \* locals of AffineG2::hash
    gres,       \* the returned point
    gerr        \* the panic message, "" while there is none

g2Vars == <<gfn, gpc, garg, q0, q1, q, gres, gerr>>

\* a call of AffineG1::hash (gfn and gpc say where it is)
VARIABLES
    q_0, q_1,   \* locals of AffineG1::hash
    g1res       \* the returned point

g1Vars == <<q_0, q_1, g1res>>

\* a run of several calls, one after the other
VARIABLES
    ncalls,     \* the calls made so far, the current one included
    history     \* per finished call: function, arguments and result

callVars == <<ncalls, history>>

\* the tests of lib.rs, lines 28-46 and 49-63
VARIABLES
    test,       \* the test that runs
    tpc,        \* its position
    G,          \* the generator
    v1, v2, v_sum, r1, r2, r_sum, c1, c2, c_sum,   \* locals of lines 31-43
    v_, scalar, v_scaled, r_, c_, c_scaled,        \* v, r, c of lines 52-60
    asserted    \* the outcome of assert_eq!, "" before it

testVars == <<test, tpc, G, v1, v2, v_sum, r1, r2, r_sum, c1, c2, c_sum,
              v_, scalar, v_scaled, r_, c_, c_scaled, asserted>>

vars == <<xmdVars, mapVars, g2Vars, g1Vars, callVars, testVars>>

\* ------------------------------------------------- expand_message_xmd, steps

Msgs == {<<>>, <<97, 98, 99>>}
ShortDst == <<81, 85, 85, 88>>
\* One byte over the limit of line 19.
LongDst == Zeros(MAX_DST_LEN + 1)
Dsts == {<<>>, ShortDst, LongDst}
\* One block over the limit of line 18.
TooLong == MAX_ELL * B_IN_BYTES + 1
Lens == (0..MaxLen) \cup {TooLong}

\* dst.len() as u8
DstLenByte(d) == AsU8(Len(d))

\* B0Input with the domain separation tag fed before the message.
B0InputDstFirst(m, d, n) ==
    Zeros(S_IN_BYTES) \o d \o <<AsU8(n \div 256), AsU8(n), 0>> \o m
        \o <<DstLenByte(d)>>

\* lines 21-27: what b_0 is the digest of
B0Input(m, d, n) ==
    Zeros(S_IN_BYTES) \o m \o <<AsU8(n \div 256), AsU8(n), 0>> \o d
        \o <<DstLenByte(d)>>

\* lines 29-34
B1Input(b0, d) == b0 \o <<1>> \o d \o <<DstLenByte(d)>>

\* lines 53-58
BiInput(t, k, d) == t \o <<AsU8(k + 1)>> \o d \o <<DstLenByte(d)>>

\* WriteChoice without the guard: every byte of every block is stored.
WriteChoiceAlways(off, n) == 1

\* Choice::from(if offset < LEN_IN_BYTES { 1 } else { 0 })
WriteChoice(off, n) == IF off < n THEN 1 ELSE 0

\* buf[offset % LEN_IN_BYTES].conditional_assign(&b, choice)
ConditionalAssign(bf, off, n, b, choice) ==
    IF choice = 1 THEN [bf EXCEPT ![(off % n) + 1] = b] ELSE bf

\* the stores the same statement makes, counted per index
CountWrite(w, off, n, choice) ==
    IF choice = 1 THEN [w EXCEPT ![(off % n) + 1] = @ + 1] ELSE w

XmdInit ==
    /\ entry \in {"expand_message_xmd", "hash_to_field"}
    /\ msg \in Msgs
    /\ dst \in Dsts
    /\ IF entry = "hash_to_field"
       THEN count \in 0..MaxCount /\ LEN_IN_BYTES = count * LEN_PER_ELM
       ELSE count = 0 /\ LEN_IN_BYTES \in Lens
    /\ xpc = "start"
    /\ ell = 0 /\ b_0 = <<>> /\ b_vals = <<>> /\ tmp = <<>> /\ buf = <<>>
    /\ offset = 0 /\ i = 0 /\ blk = 0
    /\ hashLog = <<>> /\ writes = <<>> /\ xout = <<>> /\ xerr = ""
    /\ mfn = "" /\ mpc = "" /\ mu = 0 /\ mres = 0
    /\ gfn = "" /\ gpc = "" /\ garg = G2Zero
    /\ q0 = G2Zero /\ q1 = G2Zero /\ q = G2Zero /\ gres = G2Zero /\ gerr = ""
    /\ q_0 = G1Zero /\ q_1 = G1Zero /\ g1res = G1Zero
    /\ ncalls = 0 /\ history = <<>>
    /\ test = "" /\ tpc = "" /\ G = G1Zero
    /\ v1 = <<>> /\ v2 = <<>> /\ v_sum = <<>> /\ r1 = 0 /\ r2 = 0 /\ r_sum = 0
    /\ c1 = G1Zero /\ c2 = G1Zero /\ c_sum = G1Zero
    /\ v_ = <<>> /\ scalar = 0 /\ v_scaled = <<>> /\ r_ = 0
    /\ c_ = G1Zero /\ c_scaled = G1Zero /\ asserted = ""

\* XmdCheck without the assertion of line 19.
XmdCheckNoDstLimit ==
    /\ xpc = "start"
    /\ ell' = (LEN_IN_BYTES + B_IN_BYTES - 1) \div B_IN_BYTES
    /\ IF ell' > MAX_ELL
       THEN xpc' = "panic" /\ xerr' = "len_in_bytes is too large"
       ELSE xpc' = "b0" /\ xerr' = xerr
    /\ UNCHANGED <<entry, msg, dst, LEN_IN_BYTES, count, b_0, b_vals, tmp, buf,
                   offset, i, blk, hashLog, writes, xout, mapVars, g2Vars,
                   g1Vars, callVars, testVars>>

\* lines 16-19
XmdCheck ==
    /\ xpc = "start"
    /\ ell' = (LEN_IN_BYTES + B_IN_BYTES - 1) \div B_IN_BYTES
    /\ IF ell' > MAX_ELL
       THEN xpc' = "panic" /\ xerr' = "len_in_bytes is too large"
       ELSE IF Len(dst) > MAX_DST_LEN
            THEN xpc' = "panic" /\ xerr' = "dst is too large"
            ELSE xpc' = "b0" /\ xerr' = xerr
    /\ UNCHANGED <<entry, msg, dst, LEN_IN_BYTES, count, b_0, b_vals, tmp, buf,
                   offset, i, blk, hashLog, writes, xout, mapVars, g2Vars,
                   g1Vars, callVars, testVars>>

\* lines 21-27
XmdB0 ==
    /\ xpc = "b0"
    /\ b_0' = Sha256(B0Input(msg, dst, LEN_IN_BYTES))
    /\ hashLog' = Append(hashLog, B0Input(msg, dst, LEN_IN_BYTES))
    /\ xpc' = "b1"
    /\ UNCHANGED <<entry, msg, dst, LEN_IN_BYTES, count, ell, b_vals, tmp, buf,
                   offset, i, blk, writes, xout, xerr, mapVars, g2Vars,
                   g1Vars, callVars, testVars>>

\* XmdB1 with `offset` kept from the call before, as a static would be.
XmdB1OffsetKept ==
    /\ xpc = "b1"
    /\ b_vals' = Sha256(B1Input(b_0, dst))
    /\ hashLog' = Append(hashLog, B1Input(b_0, dst))
    /\ buf' = Zeros(LEN_IN_BYTES)
    /\ writes' = Zeros(LEN_IN_BYTES)
    /\ offset' = offset
    /\ i' = 1
    /\ xpc' = "loop"
    /\ UNCHANGED <<entry, msg, dst, LEN_IN_BYTES, count, ell, b_0, tmp, blk,
                   xout, xerr, mapVars, g2Vars, g1Vars, callVars, testVars>>

\* lines 29-37, and the loop's first value of i
XmdB1 ==
    /\ xpc = "b1"
    /\ b_vals' = Sha256(B1Input(b_0, dst))
    /\ hashLog' = Append(hashLog, B1Input(b_0, dst))
    /\ buf' = Zeros(LEN_IN_BYTES)
    /\ writes' = Zeros(LEN_IN_BYTES)
    /\ offset' = 0
    /\ i' = 1
    /\ xpc' = "loop"
    /\ UNCHANGED <<entry, msg, dst, LEN_IN_BYTES, count, ell, b_0, tmp, blk,
                   xout, xerr, mapVars, g2Vars, g1Vars, callVars, testVars>>

\* line 39: the loop test; lines 41-45 when the body is entered
XmdLoop ==
    /\ xpc = "loop"
    /\ IF i < ell
       THEN xpc' = "copy" /\ tmp' = XorBytes(b_0, b_vals)
       ELSE xpc' = "final" /\ tmp' = tmp
    /\ blk' = 1
    /\ UNCHANGED <<entry, msg, dst, LEN_IN_BYTES, count, ell, b_0, b_vals, buf,
                   offset, i, hashLog, writes, xout, xerr, mapVars, g2Vars,
                   g1Vars, callVars, testVars>>

\* lines 46-52, one byte of b_vals per step
XmdCopy ==
    /\ xpc = "copy"
    /\ buf' = ConditionalAssign(buf, offset, LEN_IN_BYTES, b_vals[blk],
                                WriteChoice(offset, LEN_IN_BYTES))
    /\ writes' = CountWrite(writes, offset, LEN_IN_BYTES,
                            WriteChoice(offset, LEN_IN_BYTES))
    /\ offset' = offset + 1
    /\ IF blk < B_IN_BYTES
       THEN blk' = blk + 1 /\ xpc' = "copy"
       ELSE blk' = 0 /\ xpc' = "rehash"
    /\ UNCHANGED <<entry, msg, dst, LEN_IN_BYTES, count, ell, b_0, b_vals, tmp,
                   i, hashLog, xout, xerr, mapVars, g2Vars,
                   g1Vars, callVars, testVars>>

\* lines 53-58, and the loop's next value of i
XmdRehash ==
    /\ xpc = "rehash"
    /\ b_vals' = Sha256(BiInput(tmp, i, dst))
    /\ hashLog' = Append(hashLog, BiInput(tmp, i, dst))
    /\ i' = i + 1
    /\ xpc' = "loop"
    /\ UNCHANGED <<entry, msg, dst, LEN_IN_BYTES, count, ell, b_0, tmp, buf,
                   offset, blk, writes, xout, xerr, mapVars, g2Vars,
                   g1Vars, callVars, testVars>>

\* lines 60-65, one byte of b_vals per step; `offset % LEN_IN_BYTES` panics
\* when LEN_IN_BYTES is 0
XmdFinal ==
    /\ xpc = "final"
    /\ IF LEN_IN_BYTES = 0
       THEN /\ xpc' = "panic"
            /\ xerr' = "attempt to calculate the remainder with a divisor of zero"
            /\ UNCHANGED <<buf, writes, offset, blk, xout>>
       ELSE /\ buf' = ConditionalAssign(buf, offset, LEN_IN_BYTES, b_vals[blk],
                                        WriteChoice(offset, LEN_IN_BYTES))
            /\ writes' = CountWrite(writes, offset, LEN_IN_BYTES,
                                    WriteChoice(offset, LEN_IN_BYTES))
            /\ offset' = offset + 1
            /\ IF blk < B_IN_BYTES
               THEN blk' = blk + 1 /\ xpc' = "final" /\ xout' = xout
               ELSE blk' = 0 /\ xpc' = "done" /\ xout' = buf'
            /\ xerr' = xerr
    /\ UNCHANGED <<entry, msg, dst, LEN_IN_BYTES, count, ell, b_0, b_vals, tmp,
                   i, hashLog, mapVars, g2Vars, g1Vars, callVars, testVars>>

\* hash_to_field, lines 75-82, once expand_message_xmd has returned
HashToFieldCollect ==
    /\ entry # "expand_message_xmd"
    /\ xpc = "done"
    /\ xout' = [k \in 1..count |->
                  FromBeBytesModOrder(
                      SubSeq(xout, (k - 1) * LEN_PER_ELM + 1, k * LEN_PER_ELM))]
    /\ xpc' = "returned"
    /\ UNCHANGED <<entry, msg, dst, LEN_IN_BYTES, count, ell, b_0, b_vals, tmp,
                   buf, offset, i, blk, hashLog, writes, xerr, mapVars, g2Vars,
                   g1Vars, callVars, testVars>>

XmdNext ==
    \/ XmdCheck
    \/ XmdB0
    \/ XmdB1
    \/ XmdLoop
    \/ XmdCopy
    \/ XmdRehash
    \/ XmdFinal
    \/ HashToFieldCollect

\* ------------------------------------------ map_to_curve and sgn0, as calls

\* Largest imaginary part of the G2 arguments the model tries.
MaxIm == 6

MapInit ==
    /\ mfn \in {"AffineG1::map_to_curve", "AffineG2::map_to_curve",
                "AffineG2::sgn0"}
    /\ mu \in IF mfn = "AffineG1::map_to_curve" THEN Fq
              ELSE IF mfn = "AffineG2::sgn0" THEN Fq2
              ELSE Fq \X (0..MaxIm)
    /\ mpc = "call"
    /\ mres = 0
    /\ entry = "" /\ xpc = "" /\ msg = <<>> /\ dst = <<>>
    /\ LEN_IN_BYTES = 0 /\ count = 0
    /\ ell = 0 /\ b_0 = <<>> /\ b_vals = <<>> /\ tmp = <<>> /\ buf = <<>>
    /\ offset = 0 /\ i = 0 /\ blk = 0
    /\ hashLog = <<>> /\ writes = <<>> /\ xout = <<>> /\ xerr = ""
    /\ gfn = "" /\ gpc = "" /\ garg = G2Zero
    /\ q0 = G2Zero /\ q1 = G2Zero /\ q = G2Zero /\ gres = G2Zero /\ gerr = ""
    /\ q_0 = G1Zero /\ q_1 = G1Zero /\ g1res = G1Zero
    /\ ncalls = 0 /\ history = <<>>
    /\ test = "" /\ tpc = "" /\ G = G1Zero
    /\ v1 = <<>> /\ v2 = <<>> /\ v_sum = <<>> /\ r1 = 0 /\ r2 = 0 /\ r_sum = 0
    /\ c1 = G1Zero /\ c2 = G1Zero /\ c_sum = G1Zero
    /\ v_ = <<>> /\ scalar = 0 /\ v_scaled = <<>> /\ r_ = 0
    /\ c_ = G1Zero /\ c_scaled = G1Zero /\ asserted = ""

CallG1MapToCurve ==
    /\ mfn = "AffineG1::map_to_curve" /\ mpc = "call"
    /\ mres' = G1MapToCurve(mu)
    /\ mpc' = IF mres'.kind = "panic" THEN "panic" ELSE "returned"
    /\ UNCHANGED <<mfn, mu, xmdVars, g2Vars, g1Vars, callVars, testVars>>

CallG2MapToCurve ==
    /\ mfn = "AffineG2::map_to_curve" /\ mpc = "call"
    /\ mres' = G2MapToCurve(mu)
    /\ mpc' = IF mres'.kind = "panic" THEN "panic" ELSE "returned"
    /\ UNCHANGED <<mfn, mu, xmdVars, g2Vars, g1Vars, callVars, testVars>>

CallG2Sgn0 ==
    /\ mfn = "AffineG2::sgn0" /\ mpc = "call"
    /\ mres' = G2Sgn0(mu)
    /\ mpc' = "returned"
    /\ UNCHANGED <<mfn, mu, xmdVars, g2Vars, g1Vars, callVars, testVars>>

MapNext == CallG1MapToCurve \/ CallG2MapToCurve \/ CallG2Sgn0

\* ------------------------------ AffineG2::hash, clear_cofactor, psi as calls

\* A point of the curve that generates all of it (order 97 * 109).
GFull == G2Point(<<0, 3>>, <<50, 40>>)
\* The point arguments the model tries are k * GFull for k in 0..MaxPoint.
MaxPoint == 120
SamplePoints == {G2Mul[GFull, k] : k \in 0..MaxPoint}

\* The messages AffineG2::hash is tried on are <<k>> for k in 0..MaxMsgByte.
MaxMsgByte == 11
HashMsgs == {<<k>> : k \in 0..MaxMsgByte}

\* A call of AffineG2::hash(msg, dst), whose line 175 calls hash_to_field with
\* count 4, or a call of clear_cofactor(q) or psi(&a) on a point of the curve
G2Init ==
    /\ gfn \in {"AffineG2::hash", "clear_cofactor", "psi"}
    /\ IF gfn = "AffineG2::hash"
       THEN /\ gpc = "hash_to_field" /\ garg = G2Zero
            /\ entry = "AffineG2::hash" /\ xpc = "start"
            /\ msg \in HashMsgs /\ dst \in Dsts
            /\ count = 4 /\ LEN_IN_BYTES = count * LEN_PER_ELM
       ELSE /\ gpc = "call" /\ garg \in SamplePoints
            /\ entry = "" /\ xpc = ""
            /\ msg = <<>> /\ dst = <<>>
            /\ count = 0 /\ LEN_IN_BYTES = 0
    /\ ell = 0 /\ b_0 = <<>> /\ b_vals = <<>> /\ tmp = <<>> /\ buf = <<>>
    /\ offset = 0 /\ i = 0 /\ blk = 0
    /\ hashLog = <<>> /\ writes = <<>> /\ xout = <<>> /\ xerr = ""
    /\ q0 = G2Zero /\ q1 = G2Zero /\ q = G2Zero /\ gres = G2Zero /\ gerr = ""
    /\ mfn = "" /\ mpc = "" /\ mu = 0 /\ mres = 0
    /\ q_0 = G1Zero /\ q_1 = G1Zero /\ g1res = G1Zero
    /\ ncalls = 0 /\ history = <<>>
    /\ test = "" /\ tpc = "" /\ G = G1Zero
    /\ v1 = <<>> /\ v2 = <<>> /\ v_sum = <<>> /\ r1 = 0 /\ r2 = 0 /\ r_sum = 0
    /\ c1 = G1Zero /\ c2 = G1Zero /\ c_sum = G1Zero
    /\ v_ = <<>> /\ scalar = 0 /\ v_scaled = <<>> /\ r_ = 0
    /\ c_ = G1Zero /\ c_scaled = G1Zero /\ asserted = ""

\* Result::unwrap of what map_to_curve left behind
UnwrapPoint(res) == G2Point(res.x, res.y)

\* line 177
HashG2Map0 ==
    /\ gfn = "AffineG2::hash" /\ gpc = "hash_to_field" /\ xpc = "returned"
    /\ \E u \in {Fq2New(xout[1], xout[2])} : \E res \in {G2MapToCurve(u)} :
          IF res.kind = "Ok"
          THEN q0' = UnwrapPoint(res) /\ gpc' = "q1" /\ gerr' = gerr
          ELSE q0' = q0 /\ gpc' = "panic" /\ gerr' = "map_to_curve(u0, u1)"
    /\ UNCHANGED <<gfn, garg, q1, q, gres, xmdVars, mapVars,
                   g1Vars, callVars, testVars>>

\* line 178
HashG2Map1 ==
    /\ gfn = "AffineG2::hash" /\ gpc = "q1"
    /\ \E u \in {Fq2New(xout[3], xout[4])} : \E res \in {G2MapToCurve(u)} :
          IF res.kind = "Ok"
          THEN q1' = UnwrapPoint(res) /\ gpc' = "sum" /\ gerr' = gerr
          ELSE q1' = q1 /\ gpc' = "panic" /\ gerr' = "map_to_curve(u2, u3)"
    /\ UNCHANGED <<gfn, garg, q0, q, gres, xmdVars, mapVars,
                   g1Vars, callVars, testVars>>

\* line 180
HashG2Sum ==
    /\ gfn = "AffineG2::hash" /\ gpc = "sum"
    /\ q' = G2Into(G2Add[G2Add[G2Zero, G2Into(q0)], G2Into(q1)])
    /\ gpc' = "clear"
    /\ UNCHANGED <<gfn, garg, q0, q1, gres, gerr, xmdVars, mapVars,
                   g1Vars, callVars, testVars>>

\* line 182 left out: the hash returns the sum q as it is
CallClearCofactorSkipped ==
    /\ \/ gfn = "AffineG2::hash" /\ gpc = "clear"
       \/ gfn = "clear_cofactor" /\ gpc = "call"
    /\ \E arg \in {IF gfn = "AffineG2::hash" THEN q ELSE garg} :
          gres' = arg
    /\ gpc' = "returned"
    /\ UNCHANGED <<gfn, garg, q0, q1, q, gerr, xmdVars, mapVars,
                   g1Vars, callVars, testVars>>

\* clear_cofactor: called by line 182 of AffineG2::hash on q, whose result the
\* hash returns, or called on its own
CallClearCofactor ==
    /\ \/ gfn = "AffineG2::hash" /\ gpc = "clear"
       \/ gfn = "clear_cofactor" /\ gpc = "call"
    /\ \E arg \in {IF gfn = "AffineG2::hash" THEN q ELSE garg} :
          gres' = clear_cofactor(arg)
    /\ gpc' = "returned"
    /\ UNCHANGED <<gfn, garg, q0, q1, q, gerr, xmdVars, mapVars,
                   g1Vars, callVars, testVars>>

CallPsi ==
    /\ gfn = "psi" /\ gpc = "call"
    /\ gres' = psi(garg)
    /\ gpc' = "returned"
    /\ UNCHANGED <<gfn, garg, q0, q1, q, gerr, xmdVars, mapVars,
                   g1Vars, callVars, testVars>>

G2Next ==
    \/ XmdCheck
    \/ XmdB0
    \/ XmdB1
    \/ XmdLoop
    \/ XmdCopy
    \/ XmdRehash
    \/ XmdFinal
    \/ HashToFieldCollect
    \/ HashG2Map0
    \/ HashG2Map1
    \/ HashG2Sum
    \/ CallClearCofactor
    \/ CallPsi

\* ------------------------------------------------- the tests of lib.rs

\* The scalars tried (Fr::random in the tests).
FrVals == {0, 1, FR_MODULUS - 1}
Vectors == UNION {[1..n -> FrVals] : n \in 0..MaxVec}
\* The generators tried (AffineG1::default() in the tests).
Gens == {G1Zero, G1One, G1Point(5, 11)}

\* A run of test_commit_additive_homomorphic or of
\* test_commit_scalar_multiplication_homomorphic, after the random draws
TestInit ==
    /\ test \in {"additive", "scalar"}
    /\ G \in Gens
    /\ IF test = "additive"
       THEN /\ tpc = "sums"
            /\ v1 \in Vectors /\ v2 \in {w \in Vectors : Len(w) = Len(v1)}
            /\ r1 \in FrVals /\ r2 \in FrVals
            /\ v_ = <<>> /\ scalar = 0 /\ r_ = 0
       ELSE /\ tpc = "scaled"
            /\ v_ \in Vectors /\ scalar \in FrVals /\ r_ \in FrVals
            /\ v1 = <<>> /\ v2 = <<>> /\ r1 = 0 /\ r2 = 0
    /\ v_sum = <<>> /\ r_sum = 0 /\ v_scaled = <<>>
    /\ c1 = G1Zero /\ c2 = G1Zero /\ c_sum = G1Zero
    /\ c_ = G1Zero /\ c_scaled = G1Zero /\ asserted = ""
    /\ entry = "" /\ xpc = "" /\ msg = <<>> /\ dst = <<>>
    /\ LEN_IN_BYTES = 0 /\ count = 0
    /\ ell = 0 /\ b_0 = <<>> /\ b_vals = <<>> /\ tmp = <<>> /\ buf = <<>>
    /\ offset = 0 /\ i = 0 /\ blk = 0
    /\ hashLog = <<>> /\ writes = <<>> /\ xout = <<>> /\ xerr = ""
    /\ mfn = "" /\ mpc = "" /\ mu = 0 /\ mres = 0
    /\ gfn = "" /\ gpc = "" /\ garg = G2Zero
    /\ q0 = G2Zero /\ q1 = G2Zero /\ q = G2Zero /\ gres = G2Zero /\ gerr = ""
    /\ q_0 = G1Zero /\ q_1 = G1Zero /\ g1res = G1Zero
    /\ ncalls = 0 /\ history = <<>>

\* v1.iter().zip(&v2).map(|(&a, &b)| a + b)
ZipAdd(a, b) ==
    [k \in 1..(IF Len(a) < Len(b) THEN Len(a) ELSE Len(b)) |->
        FrAdd(a[k], b[k])]

\* lines 33 and 37
AdditiveSums ==
    /\ test = "additive" /\ tpc = "sums"
    /\ v_sum' = ZipAdd(v1, v2)
    /\ r_sum' = FrAdd(r1, r2)
    /\ tpc' = "c1"
    /\ UNCHANGED <<test, G, v1, v2, r1, r2, c1, c2, c_sum, v_, scalar, v_scaled,
                   r_, c_, c_scaled, asserted, xmdVars, mapVars, g2Vars,
                   g1Vars, callVars>>

\* line 41
AdditiveC1 ==
    /\ test = "additive" /\ tpc = "c1"
    /\ \E res \in {commit(v1, G, r1)} :
          IF IsSome(res) THEN c1' = Unwrap(res) /\ tpc' = "c2"
          ELSE c1' = c1 /\ tpc' = "panic"
    /\ UNCHANGED <<test, G, v1, v2, v_sum, r1, r2, r_sum, c2, c_sum, v_, scalar,
                   v_scaled, r_, c_, c_scaled, asserted, xmdVars, mapVars,
                   g2Vars, g1Vars, callVars>>

\* line 42
AdditiveC2 ==
    /\ test = "additive" /\ tpc = "c2"
    /\ \E res \in {commit(v2, G, r2)} :
          IF IsSome(res) THEN c2' = Unwrap(res) /\ tpc' = "c_sum"
          ELSE c2' = c2 /\ tpc' = "panic"
    /\ UNCHANGED <<test, G, v1, v2, v_sum, r1, r2, r_sum, c1, c_sum, v_, scalar,
                   v_scaled, r_, c_, c_scaled, asserted, xmdVars, mapVars,
                   g2Vars, g1Vars, callVars>>

\* line 43
AdditiveCSum ==
    /\ test = "additive" /\ tpc = "c_sum"
    /\ \E res \in {commit(v_sum, G, r_sum)} :
          IF IsSome(res) THEN c_sum' = Unwrap(res) /\ tpc' = "assert"
          ELSE c_sum' = c_sum /\ tpc' = "panic"
    /\ UNCHANGED <<test, G, v1, v2, v_sum, r1, r2, r_sum, c1, c2, v_, scalar,
                   v_scaled, r_, c_, c_scaled, asserted, xmdVars, mapVars,
                   g2Vars, g1Vars, callVars>>

\* line 45: assert_eq!(c_sum, c1 + c2)
AdditiveAssert ==
    /\ test = "additive" /\ tpc = "assert"
    /\ IF c_sum = G1Add(c1, c2)
       THEN asserted' = "passed" /\ tpc' = "done"
       ELSE asserted' = "failed" /\ tpc' = "panic"
    /\ UNCHANGED <<test, G, v1, v2, v_sum, r1, r2, r_sum, c1, c2, c_sum, v_,
                   scalar, v_scaled, r_, c_, c_scaled, xmdVars, mapVars, g2Vars,
                   g1Vars, callVars>>

\* line 54
ScalarScaled ==
    /\ test = "scalar" /\ tpc = "scaled"
    /\ v_scaled' = [k \in 1..Len(v_) |-> FrMul(v_[k], scalar)]
    /\ tpc' = "c"
    /\ UNCHANGED <<test, G, v1, v2, v_sum, r1, r2, r_sum, c1, c2, c_sum, v_,
                   scalar, r_, c_, c_scaled, asserted, xmdVars, mapVars, g2Vars,
                   g1Vars, callVars>>

\* line 59
ScalarC ==
    /\ test = "scalar" /\ tpc = "c"
    /\ \E res \in {commit(v_, G, r_)} :
          IF IsSome(res) THEN c_' = Unwrap(res) /\ tpc' = "c_scaled"
          ELSE c_' = c_ /\ tpc' = "panic"
    /\ UNCHANGED <<test, G, v1, v2, v_sum, r1, r2, r_sum, c1, c2, c_sum, v_,
                   scalar, v_scaled, r_, c_scaled, asserted, xmdVars, mapVars,
                   g2Vars, g1Vars, callVars>>

\* line 60
ScalarCScaled ==
    /\ test = "scalar" /\ tpc = "c_scaled"
    /\ \E res \in {commit(v_scaled, G, FrMul(r_, scalar))} :
          IF IsSome(res) THEN c_scaled' = Unwrap(res) /\ tpc' = "assert"
          ELSE c_scaled' = c_scaled /\ tpc' = "panic"
    /\ UNCHANGED <<test, G, v1, v2, v_sum, r1, r2, r_sum, c1, c2, c_sum, v_,
                   scalar, v_scaled, r_, c_, asserted, xmdVars, mapVars, g2Vars,
                   g1Vars, callVars>>

\* line 62: assert_eq!(c_scaled, c * scalar)
ScalarAssert ==
    /\ test = "scalar" /\ tpc = "assert"
    /\ IF c_scaled = G1Mul(c_, scalar)
       THEN asserted' = "passed" /\ tpc' = "done"
       ELSE asserted' = "failed" /\ tpc' = "panic"
    /\ UNCHANGED <<test, G, v1, v2, v_sum, r1, r2, r_sum, c1, c2, c_sum, v_,
                   scalar, v_scaled, r_, c_, c_scaled, xmdVars, mapVars, g2Vars,
                   g1Vars, callVars>>

TestNext ==
    \/ AdditiveSums
    \/ AdditiveC1
    \/ AdditiveC2
    \/ AdditiveCSum
    \/ AdditiveAssert
    \/ ScalarScaled
    \/ ScalarC
    \/ ScalarCScaled
    \/ ScalarAssert

\* ------------------------------------------- hash called more than once

\* A run makes at most MaxCalls calls.
MaxCalls == 3
\* The messages of the calls are <<k>> for k in 0..MaxCallMsg.
MaxCallMsg == 1
CallMsgs == {<<k>> : k \in 0..MaxCallMsg}
HashFns == {"AffineG1::hash", "AffineG2::hash"}

\* hash_to_field's count: g1.rs line 170, g2.rs line 175
HashCount(fn) == IF fn = "AffineG1::hash" THEN 2 ELSE 4

\* what the call that has returned gave back
HashResult == IF gfn = "AffineG1::hash" THEN g1res ELSE gres

\* The first call of a run: AffineG1::hash(msg, dst) or AffineG2::hash(msg,
\* dst), about to call hash_to_field
CallsInit ==
    /\ gfn \in HashFns
    /\ gpc = "hash_to_field" /\ garg = G2Zero
    /\ entry = gfn /\ xpc = "start"
    /\ msg \in CallMsgs /\ dst = ShortDst
    /\ count = HashCount(gfn) /\ LEN_IN_BYTES = count * LEN_PER_ELM
    /\ ell = 0 /\ b_0 = <<>> /\ b_vals = <<>> /\ tmp = <<>> /\ buf = <<>>
    /\ offset = 0 /\ i = 0 /\ blk = 0
    /\ hashLog = <<>> /\ writes = <<>> /\ xout = <<>> /\ xerr = ""
    /\ q0 = G2Zero /\ q1 = G2Zero /\ q = G2Zero /\ gres = G2Zero /\ gerr = ""
    /\ mfn = "" /\ mpc = "" /\ mu = 0 /\ mres = 0
    /\ q_0 = G1Zero /\ q_1 = G1Zero /\ g1res = G1Zero
    /\ ncalls = 1 /\ history = <<>>
    /\ test = "" /\ tpc = "" /\ G = G1Zero
    /\ v1 = <<>> /\ v2 = <<>> /\ v_sum = <<>> /\ r1 = 0 /\ r2 = 0 /\ r_sum = 0
    /\ c1 = G1Zero /\ c2 = G1Zero /\ c_sum = G1Zero
    /\ v_ = <<>> /\ scalar = 0 /\ v_scaled = <<>> /\ r_ = 0
    /\ c_ = G1Zero /\ c_scaled = G1Zero /\ asserted = ""

\* The call has returned and the next one is made, with any function and
\* message: the arguments are new, and whatever the calls before left in
\* their locals is still there.
NextCall ==
    /\ gfn \in HashFns /\ gpc = "returned" /\ ncalls < MaxCalls
    /\ history' = Append(history, [fn |-> gfn, msg |-> msg, dst |-> dst,
                                   res |-> HashResult])
    /\ ncalls' = ncalls + 1
    /\ gfn' \in HashFns /\ msg' \in CallMsgs
    /\ entry' = gfn' /\ xpc' = "start" /\ gpc' = "hash_to_field"
    /\ count' = HashCount(gfn') /\ LEN_IN_BYTES' = count' * LEN_PER_ELM
    /\ hashLog' = <<>>
    /\ UNCHANGED <<dst, ell, b_0, b_vals, tmp, buf, offset, i, blk, writes,
                   xout, xerr, garg, q0, q1, q, gres, gerr, mapVars, g1Vars,
                   testVars>>

\* g1.rs line 171
HashG1Map0 ==
    /\ gfn = "AffineG1::hash" /\ gpc = "hash_to_field" /\ xpc = "returned"
    /\ \E res \in {G1MapToCurve(xout[1])} :
          IF res.kind = "Ok"
          THEN q_0' = G1Point(res.x, res.y) /\ gpc' = "q1" /\ gerr' = gerr
          ELSE q_0' = q_0 /\ gpc' = "panic" /\ gerr' = "map_to_curve(u[0])"
    /\ UNCHANGED <<gfn, garg, q0, q1, q, gres, q_1, g1res, xmdVars, mapVars,
                   callVars, testVars>>

\* g1.rs line 172
HashG1Map1 ==
    /\ gfn = "AffineG1::hash" /\ gpc = "q1"
    /\ \E res \in {G1MapToCurve(xout[2])} :
          IF res.kind = "Ok"
          THEN q_1' = G1Point(res.x, res.y) /\ gpc' = "sum" /\ gerr' = gerr
          ELSE q_1' = q_1 /\ gpc' = "panic" /\ gerr' = "map_to_curve(u[1])"
    /\ UNCHANGED <<gfn, garg, q0, q1, q, gres, q_0, g1res, xmdVars, mapVars,
                   callVars, testVars>>

\* g1.rs lines 173-174
HashG1Sum ==
    /\ gfn = "AffineG1::hash" /\ gpc = "sum"
    /\ g1res' = G1Add(q_0, q_1)
    /\ gpc' = "returned"
    /\ UNCHANGED <<gfn, garg, q0, q1, q, gres, gerr, q_0, q_1, xmdVars, mapVars,
                   callVars, testVars>>

CallsNext ==
    \/ XmdCheck
    \/ XmdB0
    \/ XmdB1
    \/ XmdLoop
    \/ XmdCopy
    \/ XmdRehash
    \/ XmdFinal
    \/ HashToFieldCollect
    \/ HashG1Map0
    \/ HashG1Map1
    \/ HashG1Sum
    \/ HashG2Map0
    \/ HashG2Map1
    \/ HashG2Sum
    \/ CallClearCofactor
    \/ NextCall

\* ------------------------------------------------------- specifications

\* calls of expand_message_xmd and hash_to_field
SpecXmd == XmdInit /\ [][XmdNext]_vars

\* calls of map_to_curve (G1, G2) and of AffineG2::sgn0
SpecMap == MapInit /\ [][MapNext]_vars

\* calls of AffineG2::hash, clear_cofactor and psi
SpecG2 == G2Init /\ [][G2Next]_vars

\* runs of up to MaxCalls calls of AffineG1::hash and AffineG2::hash
SpecCalls == CallsInit /\ [][CallsNext]_vars

\* runs of the two tests of commit
SpecCommit == TestInit /\ [][TestNext]_vars

\* ------------------------------------------- expand_message_xmd, properties

\* I2OSP(n, 2): n as two big-endian bytes
I2OSP2(n) == <<n \div 256, n % 256>>

\* ceil(n / d)
CeilDiv(n, d) == IF n % d = 0 THEN n \div d ELSE n \div d + 1

\* len(dst) <= 255 and ceil(length / 32) <= 255
PreconditionsHold ==
    Len(dst) <= 255 /\ CeilDiv(LEN_IN_BYTES, 32) <= 255

\* C5 as stated: the first digest, b_0, is the digest of 64 zero bytes, the
\* message, the length as 2 big-endian bytes, dst and len(dst) as 1 byte, with
\* nothing between the fields.
C5_B0NothingInserted ==
    Len(hashLog) >= 1 =>
        /\ hashLog[1] = Zeros(64) \o msg \o I2OSP2(LEN_IN_BYTES) \o dst
                            \o <<Len(dst)>>
        /\ b_0 = Sha256(hashLog[1])

\* C5 amended: b_0 is the digest of 64 zero bytes, the message, the length as
\* 2 big-endian bytes, one zero byte, dst and len(dst) as 1 byte.
C5_B0WithZeroByte ==
    Len(hashLog) >= 1 =>
        /\ hashLog[1] = Zeros(64) \o msg \o I2OSP2(LEN_IN_BYTES) \o <<0>> \o dst
                            \o <<Len(dst)>>
        /\ b_0 = Sha256(hashLog[1])

C5_Witness ==
    xpc = "b1" /\ Len(hashLog) = 1 /\ msg # <<>> /\ dst # <<>>
        /\ LEN_IN_BYTES > 0

\* C6: whenever both preconditions hold (length 0 and lengths that are no
\* multiple of 32 included) expand_message_xmd does not panic and returns
\* exactly `length` bytes, and hash_to_field with count 0 returns the empty
\* sequence.
C6_TerminatesWithLengthBytes ==
    PreconditionsHold =>
        /\ xpc # "panic"
        /\ (xpc = "done" => Len(xout) = LEN_IN_BYTES)
        /\ (xpc = "returned" /\ count = 0 => xout = <<>>)

\* C7: the blocks b_1 .. b_ell as the claim defines them from b_0
RECURSIVE C7_Block(_)
C7_Block(n) ==
    IF n = 1
    THEN Sha256(b_0 \o <<1>> \o dst \o <<Len(dst)>>)
    ELSE Sha256(XorBytes(b_0, C7_Block(n - 1)) \o <<n>> \o dst \o <<Len(dst)>>)

\* C7: for length >= 1 the output is the first `length` bytes of
\* b_1 || ... || b_ell: output byte k is byte k mod 32 of block k div 32 + 1;
\* no output index is ever stored to twice, and each has been stored to exactly
\* once when the function returns.
C7_OutputIsBlockPrefix ==
    /\ \A k \in 1..Len(writes) : writes[k] <= 1
    /\ (xpc = "done" /\ LEN_IN_BYTES >= 1) =>
          /\ Len(xout) = LEN_IN_BYTES
          /\ \A k \in 0..(LEN_IN_BYTES - 1) :
                /\ xout[k + 1] = C7_Block(k \div 32 + 1)[(k % 32) + 1]
                /\ writes[k + 1] = 1

C7_Witness ==
    xpc = "done" /\ ell >= 2 /\ LEN_IN_BYTES % 32 # 0

RECURSIVE C11_BeInt(_, _)
C11_BeInt(s, n) ==
    IF n = 0 THEN 0 ELSE (C11_BeInt(s, n - 1) * 256 + s[n]) % P

\* C11, the elements: of a returning call, the result has `count` elements,
\* element k is the 48-byte slice k of expand(message, dst, 48 * count) read
\* big-endian and reduced modulo the prime, and lies in [0, p).
C11_Elements ==
    (entry = "hash_to_field" /\ xpc = "returned") =>
        /\ Len(xout) = count
        /\ LEN_IN_BYTES = 48 * count /\ Len(buf) = 48 * count
        /\ hashLog[1] = B0Input(msg, dst, 48 * count)
        /\ \A k \in 1..count :
              /\ xout[k] = C11_BeInt(SubSeq(buf, 48 * (k - 1) + 1, 48 * k), 48)
              /\ xout[k] \in 0..(P - 1)

\* C11: hash_to_field(message, dst, count) returns exactly `count` elements,
\* element i being slice i of the expanded bytes, reduced; for every count,
\* 0 included, and every dst the preconditions accept.
C11_ReturnsCountElements ==
    (entry = "hash_to_field" /\ PreconditionsHold) =>
        /\ xpc # "panic"
        /\ C11_Elements

\* ------------------------------------------- map_to_curve, sgn0, properties

\* C4: for every base-field element u, those with c1 * u^2 = 1 or -1 included,
\* AffineG1::map_to_curve(u) returns a point; it never fails or aborts.
C4_G1MapAlwaysReturnsPoint ==
    (mfn = "AffineG1::map_to_curve" /\ mpc # "call") =>
        (mpc = "returned" /\ mres.kind = "Ok")

\* The sign C9 states: the real part's lowest bit unless the real part is
\* zero, and then the imaginary part's lowest bit.
C9_Sign(v) == IF Real(v) # 0 THEN Real(v) % 2 ELSE Imaginary(v) % 2

\* C9: AffineG2::sgn0(v) is the lowest bit of real when real # 0, and the
\* lowest bit of imaginary only when real is exactly zero.
C9_Sgn0RealFirst ==
    (mfn = "AffineG2::sgn0" /\ mpc = "returned") => mres = C9_Sign(mu)

\* C10: whenever map_to_curve(u) returns a point (x, y), for G1 and for G2,
\* sgn0 recomputed on the returned y equals sgn0(u).
C10_SignOfYIsSignOfU ==
    /\ (mfn = "AffineG1::map_to_curve" /\ mpc = "returned"
            /\ mres.kind = "Ok") => G1Sgn0(mres.y) = G1Sgn0(mu)
    /\ (mfn = "AffineG2::map_to_curve" /\ mpc = "returned"
            /\ mres.kind = "Ok") => G2Sgn0(mres.y) = G2Sgn0(mu)

\* v is a square of the base field
C15_IsSquare(v) == \E r \in 0..(P - 1) : (r * r) % P = v

\* x^3 + B of the G1 curve
C15_Gx(x) == (x * x * x + G1_B) % P

\* C15: every point (x, y) the G1 mapper returns satisfies y^2 = x^3 + B; and
\* whenever neither gx1 nor gx2 is a square, gx3 = x3^3 + B is one, so the
\* unchecked square root of line 156 never fails.
C15_G1PointOnCurve ==
    (mfn = "AffineG1::map_to_curve" /\ mpc # "call") =>
        /\ mres.kind = "Ok" => (mres.y * mres.y) % P = C15_Gx(mres.x)
        /\ mres.line # 156
        /\ (mres.line # 119 /\ ~C15_IsSquare(mres.gx1)
                /\ ~C15_IsSquare(mres.gx2)) =>
                    /\ C15_IsSquare(C15_Gx(mres.x3))
                    /\ mres.kind = "Ok"

\* C15, its case: a call that fell back to x3 and returned a point
C15_Witness ==
    /\ mfn = "AffineG1::map_to_curve" /\ mpc = "returned"
    /\ mres.kind = "Ok" /\ mres.x = mres.x3
    /\ ~C15_IsSquare(mres.gx1) /\ ~C15_IsSquare(mres.gx2)

\* v is a square of the extension field: its norm is a square of the base
C16_IsSquare2(v) == C15_IsSquare((v[1] * v[1] + v[2] * v[2]) % P)

\* x1 if gx1 is a square, else x2 if gx2 is, else x3
C16_Choice(sq1, sq2, r) == IF sq1 THEN r.x1 ELSE IF sq2 THEN r.x2 ELSE r.x3

\* C16: in both mappers x is x1 whenever gx1 is a square, x2 when gx1 is not
\* a square and gx2 is, and x3 when neither is; in every call that got as far
\* as choosing x.
C16_StrictPriority ==
    /\ (mfn = "AffineG1::map_to_curve" /\ mpc # "call" /\ mres.line # 119) =>
            mres.x = C16_Choice(C15_IsSquare(mres.gx1),
                                C15_IsSquare(mres.gx2), mres)
    /\ (mfn = "AffineG2::map_to_curve" /\ mpc # "call" /\ mres.line # 130) =>
            mres.x = C16_Choice(C16_IsSquare2(mres.gx1),
                                C16_IsSquare2(mres.gx2), mres)

\* C16, its case: gx1 and gx2 are both squares, x1 and x2 differ, x1 is taken
C16_Witness ==
    /\ mfn = "AffineG2::map_to_curve" /\ mpc = "returned"
    /\ C16_IsSquare2(mres.gx1) /\ C16_IsSquare2(mres.gx2)
    /\ mres.x1 # mres.x2 /\ mres.x = mres.x1

\* ----------------------------------- clear_cofactor, psi, hash: properties

\* C1: the point AffineG2::hash returns, and clear_cofactor(q) for every
\* point q of the curve, is annihilated by the prime order r.
C1_ResultInSubgroup ==
    (gfn \in {"AffineG2::hash", "clear_cofactor"} /\ gpc = "returned") =>
        G2Mul[gres, FR_MODULUS] = G2Zero

\* psi as C2 states it: conjugate the coordinates of the argument, then
\* multiply x by endo_u and y by endo_v.
C2_Psi(a) ==
    LET c == G2Conjugate(G2Into(a))
    IN  G2Into(<<Fq2Mul(c[1], endo_u), Fq2Mul(c[2], endo_v), c[3]>>)

\* p0 + psi(3 * p0) + psi(psi(p0)) + psi(psi(psi(q))), given p0
C2_Sum(a, p0) ==
    G2Add[G2Add[G2Add[p0, C2_Psi(G2Mul[p0, 3])], C2_Psi(C2_Psi(p0))],
          C2_Psi(C2_Psi(C2_Psi(a)))]

\* C2: clear_cofactor(q) = p0 + psi(3 * p0) + psi(psi(p0)) + psi(psi(psi(q)))
\* with p0 = [X_GEN] * q and psi the endomorphism of its argument.
C2_ClearCofactorFormula ==
    (gfn = "clear_cofactor" /\ gpc = "returned") =>
        gres = C2_Sum(garg, G2Mul[garg, X_GEN])

\* C3: psi applied to the identity point returns the identity point.
C3_PsiOfIdentity ==
    (gfn = "psi" /\ gpc = "returned" /\ G2IsZero(garg)) => G2IsZero(gres)

\* the point the G2 mapper returns for the extension element (re, im)
C17_Map(re, im) == UnwrapPoint(G2MapToCurve(Fq2New(re, im)))

\* the sum of the two mapped points, and what the hash is to return
C17_Sum(u) == G2Into(G2Add[G2Into(C17_Map(u[1], u[2])),
                           G2Into(C17_Map(u[3], u[4]))])
C17_Cleared(sum) == clear_cofactor(sum)

\* C17: AffineG2::hash derives exactly 4 base-field elements with one
\* hash_to_field call, maps (u0, u1) and (u2, u3), adds the two points and
\* returns clear_cofactor of the sum; never the sum or a mapped point.
C17_HashPipeline ==
    (gfn = "AffineG2::hash" /\ gpc = "returned") =>
        /\ count = 4 /\ Len(xout) = 4 /\ Len(hashLog) = 1 + CeilDiv(192, 32)
        /\ hashLog[1] = B0Input(msg, dst, 192)
        /\ q0 = C17_Map(xout[1], xout[2])
        /\ q1 = C17_Map(xout[3], xout[4])
        /\ \E sum \in {C17_Sum(xout)} :
              /\ q = sum
              /\ gres = C17_Cleared(sum)
              /\ gres # sum
        /\ gres # q0 /\ gres # q1

\* C17, its case: a call that returned, from two different mapped points
C17_Witness ==
    /\ gfn = "AffineG2::hash" /\ gpc = "returned"
    /\ q0 # q1 /\ ~G2IsZero(q) /\ ~G2IsZero(gres)

\* -------------------------------------------------------- commit, properties

\* the test has computed every commitment it compares
C12_Compared == tpc = "assert" \/ asserted # ""

\* C12: commit(v1 + v2 elementwise, G, r1 + r2) = commit(v1, G, r1) +
\* commit(v2, G, r2), for vectors of equal length, all scalars and every G.
C12_AdditiveHomomorphism ==
    (test = "additive" /\ C12_Compared) =>
        /\ Len(v_sum) = Len(v1)
        /\ \A k \in 1..Len(v1) : v_sum[k] = (v1[k] + v2[k]) % FR_MODULUS
        /\ r_sum = (r1 + r2) % FR_MODULUS
        /\ c_sum = G1Add(c1, c2)
        /\ asserted # "failed"

\* C12, its case: two different vectors of two values, blinding scalars whose
\* sum wraps around the group order, a generator that is not the identity
C12_Witness ==
    /\ test = "additive" /\ tpc = "done"
    /\ Len(v1) = 2 /\ v1 # v2 /\ v1[1] # 0 /\ v2[2] # 0
    /\ r1 + r2 > FR_MODULUS /\ ~G1IsZero(G) /\ ~G1IsZero(c_sum)

\* the sum over i >= k of hash_to_curve_g1(le_bytes(i - 1), DST) * values[i]
RECURSIVE C13_Terms(_, _)
C13_Terms(vs, k) ==
    IF k > Len(vs) THEN G1Zero
    ELSE G1Add(G1Mul(Unwrap(CommitHash[k - 1]), vs[k]), C13_Terms(vs, k + 1))

\* G * r + the sum over i of hash_to_curve_g1(le_bytes(i), DST) * values[i]
C13_Commit(vs, gen, blind) == G1Add(G1Mul(gen, blind), C13_Terms(vs, 1))

\* C13: commit(s * v elementwise, G, s * r) = s * commit(v, G, r), where
\* commit(values, G, r) = G * r + sum_i hash_to_curve_g1(le_bytes(i), DST) *
\* values[i].
C13_ScalarHomomorphism ==
    (test = "scalar" /\ C12_Compared) =>
        /\ Len(v_scaled) = Len(v_)
        /\ \A k \in 1..Len(v_) : v_scaled[k] = (scalar * v_[k]) % FR_MODULUS
        /\ c_scaled = G1Mul(c_, scalar)
        /\ asserted # "failed"
        /\ c_ = C13_Commit(v_, G, r_)

\* C13, its case: a vector of two nonzero values scaled by -1
C13_Witness ==
    /\ test = "scalar" /\ tpc = "done"
    /\ Len(v_) = 2 /\ v_[1] # 0 /\ v_[2] # 0 /\ r_ # 0
    /\ scalar = FR_MODULUS - 1 /\ ~G1IsZero(G) /\ ~G1IsZero(c_)
    /\ c_scaled # c_

\* ------------------------------------------ repeated calls, properties

\* the finished calls of the run that had the function and the arguments of
\* the current one
C14_SameCall ==
    {k \in 1..Len(history) :
        /\ history[k].fn = gfn
        /\ history[k].msg = msg
        /\ history[k].dst = dst}

\* C14: two calls of hash_to_curve_g1, or of hash_to_curve_g2, with the same
\* (message, dst) return identical points, whatever calls ran before or
\* between them: a call that repeats one that returned does not panic and
\* returns the same point.
C14_Deterministic ==
    /\ (gfn \in HashFns /\ gpc = "returned") =>
            \A k \in C14_SameCall : history[k].res = HashResult
    /\ (gfn \in HashFns /\ (gpc = "panic" \/ xpc = "panic")) =>
            C14_SameCall = {}

\* C14, its case: AffineG2::hash called, then another call, then the first
\* call again
C14_Witness ==
    /\ gfn = "AffineG2::hash" /\ gpc = "returned" /\ ncalls = 3
    /\ 1 \in C14_SameCall /\ history[2].fn # gfn

====
